---- MODULE Spec2Model ----
(***************************************************************************)
(* A model of the farm what-if tool:                                       *)
(*   - GHGToolEnhanced (maincomponent.js, lines 37-284) with its form,     *)
(*     its message feed, its trend window and its suggestion effect;       *)
(*   - FarmDashboard (FarmDashboard.js) with the ChatWindow it hosts       *)
(*     (maincomponent.js, lines 419-657).                                  *)
(*                                                                         *)
(* Numbers.  A JavaScript number is an IEEE 754 double, and the model      *)
(* computes with doubles: a sign, a 53-bit mantissa and an exponent, with  *)
(* addition, multiplication and division rounded to the nearest double as  *)
(* the hardware rounds them, and toFixed and Math.round taken on the exact *)
(* value of the double.  So 1.39 + 0.05 * (8.18 - 8.08) is                 *)
(* 1.3949999999999998 and its toFixed(2) is 1.39.  GHGToolEnhanced stores  *)
(* only numbers of at most two decimals (form values and results of        *)
(* toFixed or Math.round); they are held as integers in hundredths (8.08   *)
(* kg/day is 808, 0.38 per kg is 38, 14.3 % is 1430), yield in whole       *)
(* litres, and turned into the doubles they denote wherever the code       *)
(* computes with them.  FarmDashboard stores the feed as the double it is  *)
(* and nitrogen in whole kg.  A cost per litre can be non-finite (division *)
(* by a zero yield), so it is a tagged value: Fin(v), PosInf, NegInf or    *)
(* NaN.                                                                    *)
(*                                                                         *)
(* Text.  A string is a sequence of one-character strings, so that         *)
(* toLowerCase, trim, includes and the regular expression of processQuery  *)
(* are computed character by character.                                    *)
(*                                                                         *)
(* React.  An event handler runs to completion and its state updates are   *)
(* committed together; an effect (useEffect) runs after the commit, as a   *)
(* step of its own, before the next event is handled.  The variable        *)
(* invoked records which of handleSend, handleQuerySubmit and              *)
(* handleFeedCostChange the last step ran, so that an invocation that      *)
(* changes nothing else is still a step.  Timestamps, ids and the random   *)
(* jitter of the synthetic trends are not modelled.                        *)
(*                                                                         *)
(* Inputs.  Form values, slider positions and texts are drawn from small   *)
(* sets, which hold values at which the double falls just below a decimal  *)
(* tie (a feed of 8.18 or 10.45 in the form, 10.5 on the slider).          *)
(***************************************************************************)
EXTENDS Integers, Sequences, FiniteSets

VARIABLES
    feedCostPerKg,   \* GHGToolEnhanced: useState(0.38), hundredths
    params,          \* GHGToolEnhanced: parameters and stored derived metrics
    query,           \* GHGToolEnhanced: text of the query box
    messages,        \* GHGToolEnhanced: the analysis feed
    suggestions,     \* GHGToolEnhanced: stored suggestion list
    yieldData,       \* GHGToolEnhanced: trend window
    effectPending,   \* GHGToolEnhanced: useEffect([params]) not yet run
    state,           \* FarmDashboard: {params, selectedTimeframe}
    chatMessages,    \* ChatWindow: message log
    input,           \* ChatWindow: text of the chat box
    welcomePending,  \* ChatWindow: the mount effect has not yet run
    invoked          \* the handler the last step ran (see above), or "none"

vars == <<feedCostPerKg, params, query, messages, suggestions, yieldData,
          effectPending, state, chatMessages, input, welcomePending, invoked>>

ghgVars == <<feedCostPerKg, params, query, messages, suggestions, yieldData,
             effectPending>>

dashVars == <<state, chatMessages, input, welcomePending>>

----------------------------------------------------------------------------
(* Bounds of the model *)

\* longest analysis feed of GHGToolEnhanced that is explored
MaxMessages == 4

\* longest ChatWindow log that is explored
MaxChatMessages == 5

----------------------------------------------------------------------------
(* Wide naturals: numbers below 2^112 as eight limbs to the base 2^14, the *)
(* least significant first.  Limbs of 14 bits keep every product and every *)
(* column sum of a multiplication below 2^31.                              *)

W == 2 ^ 14

WZero == <<0, 0, 0, 0, 0, 0, 0, 0>>

WOne == <<1, 0, 0, 0, 0, 0, 0, 0>>

\* limb j of a, 0 outside the eight limbs
Limb(a, j) == IF j >= 1 /\ j <= 8 THEN a[j] ELSE 0

\* a natural number below 2^31
WFromInt(n) == <<n % W, (n \div W) % W, n \div (W * W), 0, 0, 0, 0, 0>>

\* a number below 2^31
WToInt(a) == a[1] + a[2] * W + a[3] * W * W

\* a + b, below 2^112
WAdd(a, b) ==
    LET t1 == a[1] + b[1]
        t2 == a[2] + b[2] + t1 \div W
        t3 == a[3] + b[3] + t2 \div W
        t4 == a[4] + b[4] + t3 \div W
        t5 == a[5] + b[5] + t4 \div W
        t6 == a[6] + b[6] + t5 \div W
        t7 == a[7] + b[7] + t6 \div W
        t8 == a[8] + b[8] + t7 \div W
    IN  <<t1 % W, t2 % W, t3 % W, t4 % W, t5 % W, t6 % W, t7 % W, t8 % W>>

\* a - b for a >= b
WSub(a, b) ==
    LET t1 == W + a[1] - b[1]
        t2 == W + a[2] - b[2] - (1 - t1 \div W)
        t3 == W + a[3] - b[3] - (1 - t2 \div W)
        t4 == W + a[4] - b[4] - (1 - t3 \div W)
        t5 == W + a[5] - b[5] - (1 - t4 \div W)
        t6 == W + a[6] - b[6] - (1 - t5 \div W)
        t7 == W + a[7] - b[7] - (1 - t6 \div W)
        t8 == W + a[8] - b[8] - (1 - t7 \div W)
    IN  <<t1 % W, t2 % W, t3 % W, t4 % W, t5 % W, t6 % W, t7 % W, t8 % W>>

\* the highest limb in which a and b differ, 0 when a = b
WTopDiff(a, b) ==
    IF a[8] # b[8] THEN 8 ELSE IF a[7] # b[7] THEN 7
    ELSE IF a[6] # b[6] THEN 6 ELSE IF a[5] # b[5] THEN 5
    ELSE IF a[4] # b[4] THEN 4 ELSE IF a[3] # b[3] THEN 3
    ELSE IF a[2] # b[2] THEN 2 ELSE IF a[1] # b[1] THEN 1 ELSE 0

\* -1, 0 or 1 as a is below, equal to or above b
WCmp(a, b) ==
    LET i == WTopDiff(a, b)
    IN  IF i = 0 THEN 0 ELSE IF a[i] < b[i] THEN -1 ELSE 1

\* a * k for 0 <= k < 2^14, below 2^112
WMulSmall(a, k) ==
    LET t1 == a[1] * k
        t2 == a[2] * k + t1 \div W
        t3 == a[3] * k + t2 \div W
        t4 == a[4] * k + t3 \div W
        t5 == a[5] * k + t4 \div W
        t6 == a[6] * k + t5 \div W
        t7 == a[7] * k + t6 \div W
        t8 == a[8] * k + t7 \div W
    IN  <<t1 % W, t2 % W, t3 % W, t4 % W, t5 % W, t6 % W, t7 % W, t8 % W>>

\* a * b for a and b below 2^56 (their four high limbs are 0)
WMul(a, b) ==
    LET c1 == a[1] * b[1]
        c2 == a[1] * b[2] + a[2] * b[1] + c1 \div W
        c3 == a[1] * b[3] + a[2] * b[2] + a[3] * b[1] + c2 \div W
        c4 == a[1] * b[4] + a[2] * b[3] + a[3] * b[2] + a[4] * b[1] + c3 \div W
        c5 == a[2] * b[4] + a[3] * b[3] + a[4] * b[2] + c4 \div W
        c6 == a[3] * b[4] + a[4] * b[3] + c5 \div W
        c7 == a[4] * b[4] + c6 \div W
    IN  <<c1 % W, c2 % W, c3 % W, c4 % W, c5 % W, c6 % W, c7 % W, c7 \div W>>

\* floor(a / 2^k)
WShr(a, k) ==
    LET q == k \div 14
        p == 2 ^ (k % 14)
        h == W \div p
    IN  <<Limb(a, 1 + q) \div p + (Limb(a, 2 + q) % p) * h,
          Limb(a, 2 + q) \div p + (Limb(a, 3 + q) % p) * h,
          Limb(a, 3 + q) \div p + (Limb(a, 4 + q) % p) * h,
          Limb(a, 4 + q) \div p + (Limb(a, 5 + q) % p) * h,
          Limb(a, 5 + q) \div p + (Limb(a, 6 + q) % p) * h,
          Limb(a, 6 + q) \div p + (Limb(a, 7 + q) % p) * h,
          Limb(a, 7 + q) \div p + (Limb(a, 8 + q) % p) * h,
          Limb(a, 8 + q) \div p>>

\* a * 2^k, below 2^112
WShl(a, k) ==
    LET q == k \div 14
        p == 2 ^ (k % 14)
        h == W \div p
    IN  <<(Limb(a, 1 - q) % h) * p,
          (Limb(a, 2 - q) % h) * p + Limb(a, 1 - q) \div h,
          (Limb(a, 3 - q) % h) * p + Limb(a, 2 - q) \div h,
          (Limb(a, 4 - q) % h) * p + Limb(a, 3 - q) \div h,
          (Limb(a, 5 - q) % h) * p + Limb(a, 4 - q) \div h,
          (Limb(a, 6 - q) % h) * p + Limb(a, 5 - q) \div h,
          (Limb(a, 7 - q) % h) * p + Limb(a, 6 - q) \div h,
          (Limb(a, 8 - q) % h) * p + Limb(a, 7 - q) \div h>>

\* bit i of a, bit 0 being the lowest
WBit(a, i) == IF i < 0 THEN 0 ELSE (Limb(a, i \div 14 + 1) \div (2 ^ (i % 14))) % 2

\* one of the k lowest bits of a is set
WLow(a, k) ==
    LET q == k \div 14
    IN  \/ q >= 1 /\ a[1] # 0
        \/ q >= 2 /\ a[2] # 0
        \/ q >= 3 /\ a[3] # 0
        \/ q >= 4 /\ a[4] # 0
        \/ q >= 5 /\ a[5] # 0
        \/ q >= 6 /\ a[6] # 0
        \/ q >= 7 /\ a[7] # 0
        \/ q >= 8 /\ a[8] # 0
        \/ Limb(a, q + 1) % (2 ^ (k % 14)) # 0

\* the number of bits of a limb
LimbBits(x) ==
    IF x < 128
    THEN IF x < 8 THEN (IF x < 2 THEN x ELSE IF x < 4 THEN 2 ELSE 3)
         ELSE IF x < 32 THEN (IF x < 16 THEN 4 ELSE 5)
         ELSE IF x < 64 THEN 6 ELSE 7
    ELSE IF x < 1024 THEN (IF x < 256 THEN 8 ELSE IF x < 512 THEN 9 ELSE 10)
         ELSE IF x < 4096 THEN (IF x < 2048 THEN 11 ELSE 12)
         ELSE IF x < 8192 THEN 13 ELSE 14

\* the number of bits of a
WBitLen(a) ==
    LET i == WTopDiff(a, WZero)
    IN  IF i = 0 THEN 0 ELSE 14 * (i - 1) + LimbBits(a[i])

----------------------------------------------------------------------------
(* IEEE 754 double precision: a finite number is s * m * 2^e, with s = 1   *)
(* or -1 and a mantissa m of exactly 53 bits held in four limbs, or it is  *)
(* Zero.  Subnormal numbers and overflow do not arise in this program; the *)
(* sign of a zero is not kept.                                             *)

NoMantissa == <<0, 0, 0, 0>>

Zero == [s |-> 1, m |-> NoMantissa, e |-> 0]

Wide(m) == <<m[1], m[2], m[3], m[4], 0, 0, 0, 0>>

Narrow(a) == <<a[1], a[2], a[3], a[4]>>

\* the mantissa q, of 53 bits or 2^53 itself, with sign s and exponent e
Normal(s, q, e) ==
    IF q[4] >= 2048
    THEN [s |-> s, m |-> <<0, 0, 0, 1024>>, e |-> e + 1]
    ELSE [s |-> s, m |-> Narrow(q), e |-> e]

\* q = floor(A / 2^r) is rounded up: the part cut off is above a half, or
\* it is a half and q is odd
RoundsUp(A, r, sticky, q) ==
    /\ WBit(A, r - 1) = 1
    /\ (sticky \/ WLow(A, r - 1) \/ q[1] % 2 = 1)

\* rounding with r bits of A cut off, q = floor(A / 2^r)
RoundShifted(s, A, e, sticky, r, q) ==
    Normal(s, IF RoundsUp(A, r, sticky, q) THEN WAdd(q, WOne) ELSE q, e + r)

\* rounding of A, which has L bits
RoundBits(s, A, e, sticky, L) ==
    IF L = 0 THEN Zero
    ELSE IF L <= 53
    THEN [s |-> s, m |-> Narrow(WShl(A, 53 - L)), e |-> e - (53 - L)]
    ELSE RoundShifted(s, A, e, sticky, L - 53, WShr(A, L - 53))

\* s * (A + t) * 2^e rounded to the nearest double, a tie going to the even
\* mantissa; sticky says that 0 < t < 1, otherwise t = 0
RoundToDouble(s, A, e, sticky) == RoundBits(s, A, e, sticky, WBitLen(A))

\* the double of an integer of absolute value below 2^31
FromInt(n) ==
    RoundToDouble(IF n < 0 THEN -1 ELSE 1,
                  WFromInt(IF n < 0 THEN -n ELSE n), 0, FALSE)

FNeg(x) == IF x.m = NoMantissa THEN x ELSE [x EXCEPT !.s = -x.s]

\* -1, 0 or 1 as |x| is below, equal to or above |y|
FCmpAbs(x, y) ==
    IF x.m = NoMantissa \/ y.m = NoMantissa
    THEN (IF x.m = y.m THEN 0 ELSE IF x.m = NoMantissa THEN -1 ELSE 1)
    ELSE IF x.e # y.e THEN (IF x.e < y.e THEN -1 ELSE 1)
    ELSE WCmp(Wide(x.m), Wide(y.m))

\* the sign of x: -1, 0 or 1
FSign(x) == IF x.m = NoMantissa THEN 0 ELSE x.s

\* x < y
FLess(x, y) ==
    IF FSign(x) # FSign(y) THEN FSign(x) < FSign(y)
    ELSE FSign(x) * FCmpAbs(x, y) < 0

\* sx * X + sy * Y, times 2^e, where c compares X with Y
AddOrdered(sx, X, sy, Y, e, c) ==
    RoundToDouble(IF sx = sy \/ c >= 0 THEN sx ELSE sy,
                  IF sx = sy THEN WAdd(X, Y)
                  ELSE WSub(IF c >= 0 THEN X ELSE Y, IF c >= 0 THEN Y ELSE X),
                  e, FALSE)

\* sx * X + sy * Y, times 2^e
AddAligned(sx, X, sy, Y, e) == AddOrdered(sx, X, sy, Y, e, WCmp(X, Y))

\* x + y.  When the exponents are more than 58 apart the smaller number is
\* less than a quarter of the last place of the larger.
FAdd(x, y) ==
    IF x.m = NoMantissa THEN y
    ELSE IF y.m = NoMantissa THEN x
    ELSE IF x.e - y.e > 58 THEN x
    ELSE IF y.e - x.e > 58 THEN y
    ELSE IF x.e < y.e
    THEN AddAligned(x.s, Wide(x.m), y.s, WShl(Wide(y.m), y.e - x.e), x.e)
    ELSE AddAligned(x.s, WShl(Wide(x.m), x.e - y.e), y.s, Wide(y.m), y.e)

\* x - y
FSub(x, y) == FAdd(x, FNeg(y))

\* x * y
FMul(x, y) ==
    IF x.m = NoMantissa \/ y.m = NoMantissa THEN Zero
    ELSE RoundToDouble(x.s * y.s, WMul(Wide(x.m), Wide(y.m)), x.e + y.e, FALSE)

RECURSIVE DivCorrect(_, _, _, _)
\* the limb q and the remainder R1 - q * D, where P = q * D and q is not
\* below the quotient
DivCorrect(R1, D, q, P) ==
    IF WCmp(P, R1) <= 0 THEN [q |-> q, r |-> WSub(R1, P)]
    ELSE DivCorrect(R1, D, q - 1, WSub(P, D))

\* the limb qhat, at most 2 too large, brought down to the quotient
DivFrom(R1, D, qhat) == DivCorrect(R1, D, qhat, WMulSmall(D, qhat))

\* One limb of the quotient R * 2^14 / D for R < D, where D has four limbs
\* and its highest is at least 2^13: the limb estimated from the two highest
\* limbs of the dividend is at most 2 too large
DivStep(R, D) ==
    DivFrom(<<0, R[1], R[2], R[3], R[4], 0, 0, 0>>, D,
            IF (R[4] * W + R[3]) \div D[4] >= W THEN W - 1
            ELSE (R[4] * W + R[3]) \div D[4])

RECURSIVE DivLimbs(_, _, _, _)
\* the limb d.q is appended to the quotient q and k limbs are still to come
DivNext(D, k, q, d) ==
    DivLimbs(d.r, D, k, <<d.q, q[1], q[2], q[3], q[4], 0, 0, 0>>)

\* k more limbs of the quotient of R by D, where R < D
DivLimbs(R, D, k, q) ==
    IF k = 0 THEN [q |-> q, sticky |-> R # WZero]
    ELSE DivNext(D, k - 1, q, DivStep(R, D))

\* the quotient of the mantissas N / D to 56 binary places, and whether a
\* remainder is left
LongDivision(N, D) ==
    IF WCmp(N, D) >= 0 THEN DivLimbs(WSub(N, D), D, 4, WOne)
    ELSE DivLimbs(N, D, 4, WZero)

\* floor(a / c) and whether a remainder is left, for 0 < c < 2^14
ShortDivision(a, c) ==
    LET t8 == a[8]
        t7 == (t8 % c) * W + a[7]
        t6 == (t7 % c) * W + a[6]
        t5 == (t6 % c) * W + a[5]
        t4 == (t5 % c) * W + a[4]
        t3 == (t4 % c) * W + a[3]
        t2 == (t3 % c) * W + a[2]
        t1 == (t2 % c) * W + a[1]
    IN  [q |-> <<t1 \div c, t2 \div c, t3 \div c, t4 \div c,
                 t5 \div c, t6 \div c, t7 \div c, t8 \div c>>,
         sticky |-> t1 % c # 0]

\* the quotient d of the mantissas, with sign s and exponent e
Quotient(s, d, e) == RoundToDouble(s, d.q, e, d.sticky)

\* x / y for y other than zero.  A divisor whose mantissa has at most 14
\* significant bits (100, 2, 3, a yield below 16384) is divided by in one
\* pass; any other by long division.
FDiv(x, y) ==
    IF x.m = NoMantissa THEN Zero
    ELSE IF y.m[1] = 0 /\ y.m[2] = 0 /\ y.m[3] % 2048 = 0
    THEN Quotient(x.s * y.s,
                  ShortDivision(<<0, 0, x.m[1], x.m[2], x.m[3], x.m[4], 0, 0>>,
                                y.m[4] * 8 + y.m[3] \div 2048),
                  x.e - y.e - 67)
    ELSE Quotient(x.s * y.s,
                  LongDivision(WMulSmall(Wide(x.m), 8), WMulSmall(Wide(y.m), 8)),
                  x.e - y.e - 56)

\* the double nearest to the decimal n / scale, as a numeric literal or
\* parseFloat gives it, for |n| below 2^31 and 0 < scale < 2^14
Dec(n, scale) ==
    Quotient(IF n < 0 THEN -1 ELSE 1,
             ShortDivision(WShl(WFromInt(IF n < 0 THEN -n ELSE n), 70), scale),
             -70)

\* x * 10^digits to the nearest integer, where N is the mantissa of x times
\* 10^digits
FixedOf(x, N) ==
    IF x.m = NoMantissa THEN 0
    ELSE IF x.e >= 0 THEN x.s * WToInt(WShl(N, x.e))
    ELSE x.s * (WToInt(WShr(N, -x.e)) + WBit(N, -x.e - 1))

\* Number.prototype.toFixed(digits) as the integer x * 10^digits rounded to
\* the nearest, a tie of the exact value of x going away from zero
\* (|x| below 2^31 / 10^digits, digits at most 4)
toFixed(x, digits) == FixedOf(x, WMulSmall(Wide(x.m), 10 ^ digits))

\* Math.round: the integer floor(x + 0.5) of the exact value of x
\* (|x| below 2^31)
MathRound(x) ==
    IF x.m = NoMantissa THEN 0
    ELSE IF x.e >= 0 THEN x.s * WToInt(WShl(Wide(x.m), x.e))
    ELSE IF x.s = 1
    THEN WToInt(WShr(Wide(x.m), -x.e)) + WBit(Wide(x.m), -x.e - 1)
    ELSE -(WToInt(WShr(Wide(x.m), -x.e))
           + (IF WBit(Wide(x.m), -x.e - 1) = 1 /\ WLow(Wide(x.m), -x.e - 1)
              THEN 1 ELSE 0))

----------------------------------------------------------------------------
(* JavaScript numbers that need not be finite *)

Fin(v) == [k |-> "fin", v |-> v]

PosInf == [k |-> "inf", v |-> 1]

NegInf == [k |-> "inf", v |-> -1]

NaN == [k |-> "nan", v |-> 0]

IsFinite(x) == x.k = "fin"

Abs(n) == IF n < 0 THEN -n ELSE n

\* x > y on a tagged number x and a finite y.
JsGreater(x, y) ==
    CASE x.k = "fin" -> x.v > y
      [] x.k = "inf" -> x.v > 0
      [] OTHER -> FALSE

\* x > y on two tagged numbers.
JsGreater2(x, y) ==
    CASE x.k = "nan" \/ y.k = "nan" -> FALSE
      [] y.k = "fin" -> JsGreater(x, y.v)
      [] y.v > 0 -> FALSE
      [] OTHER -> ~(x.k = "inf" /\ x.v < 0)

\* x - y on two tagged numbers.
JsMinus(x, y) ==
    CASE x.k = "nan" \/ y.k = "nan" -> NaN
      [] x.k = "fin" /\ y.k = "fin" -> Fin(x.v - y.v)
      [] x.k = "inf" /\ y.k = "inf" -> IF x.v = y.v THEN NaN ELSE x
      [] x.k = "inf" -> x
      [] OTHER -> IF y.v > 0 THEN NegInf ELSE PosInf

\* parseFloat(e.target.value) || 0 of the form's onChange handlers: the
\* parsed value is a finite number or NaN; NaN and 0 are falsy.
OrZero(raw) == IF raw.k = "fin" THEN raw.v ELSE 0

----------------------------------------------------------------------------
(* Constants of maincomponent.js *)

EMISSIONS_THRESHOLD == 150

COST_PER_LITRE_THRESHOLD == 35

PROTEIN_EFFICIENCY_THRESHOLD == 1200

NITROGEN_EFFICIENCY_THRESHOLD == 1500

TARGET_YIELD == 9000

----------------------------------------------------------------------------
(* The numeric literals of both components, as the doubles they denote *)

\* 1.39
Lit_1_39 == Dec(139, 100)

\* 0.05
Lit_0_05 == Dec(5, 100)

\* 8.08
Lit_8_08 == Dec(808, 100)

\* 0.25
Lit_0_25 == Dec(25, 100)

\* 14.3
Lit_14_3 == Dec(143, 10)

\* 0.1
Lit_0_1 == Dec(1, 10)

\* 17.6
Lit_17_6 == Dec(176, 10)

\* 0.02
Lit_0_02 == Dec(2, 100)

\* 0.9
Lit_0_9 == Dec(9, 10)

\* 1
Lit_1 == FromInt(1)

\* 2
Lit_2 == FromInt(2)

\* 3
Lit_3 == FromInt(3)

\* 70
Lit_70 == FromInt(70)

\* 100
Lit_100 == FromInt(100)

\* 180
Lit_180 == FromInt(180)

\* 365
Lit_365 == FromInt(365)

\* 8750
Lit_8750 == FromInt(8750)

\* the double a number of hundredths denotes, as parseFloat and the unary
\* plus give it for a text of two decimals
Hundredths(n) == Dec(n, 100)

----------------------------------------------------------------------------
(* Calculation functions of maincomponent.js (feed, nitrogen, cost and the *)
(* results in hundredths; yield in litres)                                 *)

\* +(1.39 + (0.05 * (feed - 8.08))).toFixed(2)
calculateEmissions(feed) ==
    toFixed(FAdd(Lit_1_39,
                 FMul(Lit_0_05, FSub(Hundredths(feed), Lit_8_08))), 2)

\* Math.round(8750 + (100 * (feed - 8.08)))
calculateYield(feed) ==
    MathRound(FAdd(Lit_8750,
                   FMul(Lit_100, FSub(Hundredths(feed), Lit_8_08))))

\* +(0.25 + ((feed * feedCostPerKg * 365) / yield_)).toFixed(2); a division
\* by a yield of 0 gives NaN for 0 / 0 and an infinity otherwise
calculateCostPerLitre(feed, yield_, cost) ==
    LET num == FMul(FMul(Hundredths(feed), Hundredths(cost)), Lit_365)
    IN  IF yield_ = 0
        THEN IF num = Zero THEN NaN ELSE IF num.s > 0 THEN PosInf ELSE NegInf
        ELSE Fin(toFixed(FAdd(Lit_0_25, FDiv(num, FromInt(yield_))), 2))

\* +(14.3 - (0.1 * (feed - 8.08))).toFixed(1)
calculateProteinEfficiency(feed) ==
    10 * toFixed(FSub(Lit_14_3,
                      FMul(Lit_0_1, FSub(Hundredths(feed), Lit_8_08))), 1)

\* +(17.6 - (0.02 * (nitrogen - 180))).toFixed(1)
calculateNitrogenEfficiency(nitrogen) ==
    10 * toFixed(FSub(Lit_17_6,
                      FMul(Lit_0_02, FSub(Hundredths(nitrogen), Lit_180))), 1)

Months ==
    <<"Jan", "Feb", "Mar", "Apr", "May", "Jun",
      "Jul", "Aug", "Sep", "Oct", "Nov", "Dec">>

\* months.indexOf(currentMonth), 0-based, -1 when absent
IndexOfMonth(m) ==
    IF \E i \in 1..12 : Months[i] = m
    THEN (CHOOSE i \in 1..12 : Months[i] = m) - 1
    ELSE -1

\* getNextMonth, were the index not taken modulo 12 but held at December
getNextMonth_NoWrap(currentMonth) ==
    Months[(IF IndexOfMonth(currentMonth) + 1 > 11 THEN 11
            ELSE IndexOfMonth(currentMonth) + 1) + 1]

\* months[(index + 1) % 12]
getNextMonth(currentMonth) == Months[((IndexOfMonth(currentMonth) + 1) % 12) + 1]

----------------------------------------------------------------------------
(* Text: strings as sequences of characters *)

UpperCase ==
    <<"A", "B", "C", "D", "E", "F", "G", "H", "I", "J", "K", "L", "M",
      "N", "O", "P", "Q", "R", "S", "T", "U", "V", "W", "X", "Y", "Z">>

LowerCase ==
    <<"a", "b", "c", "d", "e", "f", "g", "h", "i", "j", "k", "l", "m",
      "n", "o", "p", "q", "r", "s", "t", "u", "v", "w", "x", "y", "z">>

Digits == <<"0", "1", "2", "3", "4", "5", "6", "7", "8", "9">>

toLowerCaseChar(c) ==
    IF \E i \in 1..26 : UpperCase[i] = c
    THEN LowerCase[CHOOSE i \in 1..26 : UpperCase[i] = c]
    ELSE c

\* String.prototype.toLowerCase
toLowerCase(s) == [i \in 1..Len(s) |-> toLowerCaseChar(s[i])]

\* String.prototype.trim (the only white space of the alphabet is " ")
trim(s) ==
    LET keep == {i \in 1..Len(s) : s[i] # " "}
    IN  IF keep = {} THEN <<>>
        ELSE SubSeq(s, CHOOSE i \in keep : \A j \in keep : i <= j,
                       CHOOSE i \in keep : \A j \in keep : i >= j)

\* String.prototype.includes
includes(s, sub) ==
    \E i \in 1..(Len(s) - Len(sub) + 1) : SubSeq(s, i, i + Len(sub) - 1) = sub

IsDigit(c) == \E i \in 1..10 : Digits[i] = c

DigitValue(c) == (CHOOSE i \in 1..10 : Digits[i] = c) - 1

RECURSIVE parseInt(_)
\* parseInt(digits, 10) on a non-empty run of decimal digits
parseInt(ds) ==
    IF ds = <<>> THEN 0
    ELSE 10 * parseInt(SubSeq(ds, 1, Len(ds) - 1)) + DigitValue(ds[Len(ds)])

\* "emission"
L_Emission == <<"e", "m", "i", "s", "s", "i", "o", "n">>
\* "cost"
L_Cost == <<"c", "o", "s", "t">>
\* "yield"
L_Yield == <<"y", "i", "e", "l", "d">>

\* Query texts typed into the query box of GHGToolEnhanced
\* ""
Q_Empty == <<>>
\* "  "
Q_Blank == <<" ", " ">>
\* "Emissions?"
Q_Emissions == <<"E", "m", "i", "s", "s", "i", "o", "n", "s", "?">>
\* "cost"
Q_Cost == <<"c", "o", "s", "t">>
\* "yield"
Q_Yield == <<"y", "i", "e", "l", "d">>
\* "hello"
Q_Hello == <<"h", "e", "l", "l", "o">>

QueryTexts == {Q_Empty, Q_Blank, Q_Emissions, Q_Cost, Q_Yield, Q_Hello}

----------------------------------------------------------------------------
(* GHGToolEnhanced *)

\* values the form's number inputs can hand to parseFloat (hundredths); at
\* 8.18 the emissions, as a double, lie just below 1.395, and at -5 the
\* cost per litre is a double just above -6.685
FeedInputs == {NaN, Fin(818), Fin(-500), Fin(-7942)}

NitrogenInputs == {Fin(25000), Fin(-1000)}

CostInputs == {NaN, Fin(0), Fin(50), Fin(-100)}

InitParams ==
    [concentrateFeed |-> 808, nitrogenRate |-> 18000, emissions |-> 139,
     yield |-> 8721, costPerLitre |-> Fin(37), proteinEfficiency |-> 1430,
     nitrogenEfficiency |-> 1760]

InitMessages == <<[type |-> "info", text |-> [kind |-> "welcome"]]>>

InitYieldData ==
    <<[month |-> "Jan", yield |-> 8750, target |-> TARGET_YIELD, cost |-> Fin(32)],
      [month |-> "Feb", yield |-> 8900, target |-> TARGET_YIELD, cost |-> Fin(32)],
      [month |-> "Mar", yield |-> 8800, target |-> TARGET_YIELD, cost |-> Fin(32)],
      [month |-> "Apr", yield |-> 8650, target |-> TARGET_YIELD, cost |-> Fin(32)]>>

\* the newParams object of updateParams; cost is the feedCostPerKg the
\* handler's closure holds
NewParams(newFeed, newNitrogen, cost) ==
    LET yieldValue == calculateYield(newFeed)
    IN  [concentrateFeed |-> newFeed,
         nitrogenRate |-> newNitrogen,
         emissions |-> calculateEmissions(newFeed),
         yield |-> yieldValue,
         costPerLitre |-> calculateCostPerLitre(newFeed, yieldValue, cost),
         proteinEfficiency |-> calculateProteinEfficiency(newFeed),
         nitrogenEfficiency |-> calculateNitrogenEfficiency(newNitrogen)]

\* formatChange of addChangeMessage on finite hundredths: the sign prefix
\* and the difference
formatChange(val1, val2) == [plus |-> val2 > val1, diff |-> val2 - val1]

\* formatChange on tagged numbers
formatChangeJs(val1, val2) ==
    [plus |-> JsGreater2(val2, val1), diff |-> JsMinus(val2, val1)]

\* the entry addChangeMessage appends: the values its text embeds
ChangeMessage(old, new) ==
    [type |-> "alert",
     text |-> [kind |-> "summary", old |-> old, new |-> new,
               emissions |-> formatChange(old.emissions, new.emissions),
               yield |-> new.yield - old.yield,
               costPerLitre |-> formatChangeJs(old.costPerLitre, new.costPerLitre)]]

\* addChangeMessage, were a summary to replace the summary before it
addChangeMessage_Deduplicated(prev, old, new) ==
    IF prev[Len(prev)].type = "alert"
    THEN [prev EXCEPT ![Len(prev)] = ChangeMessage(old, new)]
    ELSE Append(prev, ChangeMessage(old, new))

\* setMessages(prev => [...prev, {type: 'alert', text: ...}])
addChangeMessage(prev, old, new) == Append(prev, ChangeMessage(old, new))

updateYieldData(prev, newParams) ==
    LET nextMonth == getNextMonth(prev[Len(prev)].month)
    IN  Append(Tail(prev),
               [month |-> nextMonth, yield |-> newParams.yield,
                target |-> TARGET_YIELD, cost |-> newParams.costPerLitre])

\* generateSuggestions, were rule 1 to fire at the threshold as well
generateSuggestions_AtThreshold(p) ==
    LET reducedFeed ==
            toFixed(FMul(Hundredths(p.concentrateFeed), Lit_0_9), 2)
        potentialEmissions == calculateEmissions(reducedFeed)
        emissionsReduction ==
            toFixed(FMul(FDiv(FSub(Hundredths(p.emissions),
                                   Hundredths(potentialEmissions)),
                              Hundredths(p.emissions)),
                         Lit_100), 1)
    IN  (IF p.emissions >= EMISSIONS_THRESHOLD
         THEN <<[type |-> "emission", priority |-> "high",
                 reducedFeed |-> reducedFeed,
                 emissionsReduction |-> emissionsReduction]>>
         ELSE <<>>)
        \o
        (IF p.nitrogenEfficiency < NITROGEN_EFFICIENCY_THRESHOLD
         THEN <<[type |-> "nitrogen", priority |-> "medium"]>>
         ELSE <<>>)
        \o
        (IF p.proteinEfficiency < PROTEIN_EFFICIENCY_THRESHOLD
         THEN <<[type |-> "protein", priority |-> "medium"]>>
         ELSE <<>>)
        \o
        (IF JsGreater(p.costPerLitre, COST_PER_LITRE_THRESHOLD)
         THEN <<[type |-> "cost", priority |-> "high",
                 costPerLitre |-> p.costPerLitre]>>
         ELSE <<>>)

\* generateSuggestions, were the list ordered by priority (high first)
generateSuggestions_ByPriority(p) ==
    LET reducedFeed ==
            toFixed(FMul(Hundredths(p.concentrateFeed), Lit_0_9), 2)
        potentialEmissions == calculateEmissions(reducedFeed)
        emissionsReduction ==
            toFixed(FMul(FDiv(FSub(Hundredths(p.emissions),
                                   Hundredths(potentialEmissions)),
                              Hundredths(p.emissions)),
                         Lit_100), 1)
    IN  (IF p.emissions > EMISSIONS_THRESHOLD
         THEN <<[type |-> "emission", priority |-> "high",
                 reducedFeed |-> reducedFeed,
                 emissionsReduction |-> emissionsReduction]>>
         ELSE <<>>)
        \o
        (IF JsGreater(p.costPerLitre, COST_PER_LITRE_THRESHOLD)
         THEN <<[type |-> "cost", priority |-> "high",
                 costPerLitre |-> p.costPerLitre]>>
         ELSE <<>>)
        \o
        (IF p.nitrogenEfficiency < NITROGEN_EFFICIENCY_THRESHOLD
         THEN <<[type |-> "nitrogen", priority |-> "medium"]>>
         ELSE <<>>)
        \o
        (IF p.proteinEfficiency < PROTEIN_EFFICIENCY_THRESHOLD
         THEN <<[type |-> "protein", priority |-> "medium"]>>
         ELSE <<>>)

\* generateSuggestions of GHGToolEnhanced: of a suggestion the model keeps
\* its type, its priority and the numbers its texts embed (reducedFeed in
\* hundredths, emissionsReduction in tenths of a per cent)
generateSuggestions(p) ==
    LET reducedFeed ==
            toFixed(FMul(Hundredths(p.concentrateFeed), Lit_0_9), 2)
        potentialEmissions == calculateEmissions(reducedFeed)
        emissionsReduction ==
            toFixed(FMul(FDiv(FSub(Hundredths(p.emissions),
                                   Hundredths(potentialEmissions)),
                              Hundredths(p.emissions)),
                         Lit_100), 1)
    IN  (IF p.emissions > EMISSIONS_THRESHOLD
         THEN <<[type |-> "emission", priority |-> "high",
                 reducedFeed |-> reducedFeed,
                 emissionsReduction |-> emissionsReduction]>>
         ELSE <<>>)
        \o
        (IF p.nitrogenEfficiency < NITROGEN_EFFICIENCY_THRESHOLD
         THEN <<[type |-> "nitrogen", priority |-> "medium"]>>
         ELSE <<>>)
        \o
        (IF p.proteinEfficiency < PROTEIN_EFFICIENCY_THRESHOLD
         THEN <<[type |-> "protein", priority |-> "medium"]>>
         ELSE <<>>)
        \o
        (IF JsGreater(p.costPerLitre, COST_PER_LITRE_THRESHOLD)
         THEN <<[type |-> "cost", priority |-> "high",
                 costPerLitre |-> p.costPerLitre]>>
         ELSE <<>>)

\* the response of handleQuerySubmit: first matching keyword wins
QueryResponse(q, p) ==
    LET lowerQuery == toLowerCase(q)
    IN  IF includes(lowerQuery, L_Emission)
        THEN [type |-> "info",
              text |-> [kind |-> "emission", value |-> p.emissions,
                        above |-> p.emissions > EMISSIONS_THRESHOLD]]
        ELSE IF includes(lowerQuery, L_Cost)
        THEN [type |-> "info",
              text |-> [kind |-> "cost", value |-> p.costPerLitre,
                        above |-> JsGreater(p.costPerLitre, COST_PER_LITRE_THRESHOLD)]]
        ELSE IF includes(lowerQuery, L_Yield)
        THEN [type |-> "info",
              text |-> [kind |-> "yield", value |-> p.yield,
                        below |-> p.yield < TARGET_YIELD,
                        gap |-> TARGET_YIELD - p.yield]]
        ELSE [type |-> "info", text |-> [kind |-> "default"]]

\* updateParams: params, feed message and trend window are set together;
\* feedCostPerKg is read from the closure, that is, as it was rendered
UpdateParams(newFeed, newNitrogen) ==
    LET oldParams == params
        newParams == NewParams(newFeed, newNitrogen, feedCostPerKg)
    IN  /\ params' = newParams
        /\ messages' = addChangeMessage(messages, oldParams, newParams)
        /\ yieldData' = updateYieldData(yieldData, newParams)
        /\ effectPending' = TRUE

\* onChange of the concentrate feed input
FeedInputChange(raw) ==
    /\ ~effectPending
    /\ Len(messages) < MaxMessages
    /\ UpdateParams(OrZero(raw), params.nitrogenRate)
    /\ UNCHANGED <<feedCostPerKg, query, suggestions>>
    /\ UNCHANGED dashVars
    /\ invoked' = "none"

\* onChange of the nitrogen input
NitrogenInputChange(raw) ==
    /\ ~effectPending
    /\ Len(messages) < MaxMessages
    /\ UpdateParams(params.concentrateFeed, OrZero(raw))
    /\ UNCHANGED <<feedCostPerKg, query, suggestions>>
    /\ UNCHANGED dashVars
    /\ invoked' = "none"

\* the guard of handleFeedCostChange, were a cost of 0 accepted
CostAccepted_NonNegative(newCost) == newCost >= 0

\* the guard of handleFeedCostChange: !isNaN(newCost) && newCost > 0
CostAccepted(newCost) == newCost > 0

\* onChange of the feed cost input, calling handleFeedCostChange
FeedCostInputChange(raw) ==
    LET newCost == OrZero(raw)
    IN  /\ ~effectPending
        /\ Len(messages) < MaxMessages
        /\ IF CostAccepted(newCost)
           THEN /\ feedCostPerKg' = newCost
                /\ UpdateParams(params.concentrateFeed, params.nitrogenRate)
                /\ UNCHANGED <<query, suggestions>>
           ELSE UNCHANGED ghgVars
        /\ UNCHANGED dashVars
        /\ invoked' = "handleFeedCostChange"

\* onChange of the query box
SetQuery(q) ==
    /\ ~effectPending
    /\ query' = q
    /\ UNCHANGED <<feedCostPerKg, params, messages, suggestions, yieldData,
                   effectPending>>
    /\ UNCHANGED dashVars
    /\ invoked' = "none"

handleQuerySubmit ==
    /\ ~effectPending
    /\ Len(messages) + 2 <= MaxMessages
    /\ IF trim(query) # <<>>
       THEN /\ messages' = Append(Append(messages,
                                [type |-> "query", text |-> [kind |-> "text", text |-> query]]),
                                QueryResponse(query, params))
            /\ query' = <<>>
       ELSE UNCHANGED <<messages, query>>
    /\ UNCHANGED <<feedCostPerKg, params, suggestions, yieldData, effectPending>>
    /\ UNCHANGED dashVars
    /\ invoked' = "handleQuerySubmit"

\* React.useEffect(() => setSuggestions(generateSuggestions(params)), [params])
SuggestionsEffect ==
    /\ effectPending
    /\ suggestions' = generateSuggestions(params)
    /\ effectPending' = FALSE
    /\ UNCHANGED <<feedCostPerKg, params, query, messages, yieldData>>
    /\ UNCHANGED dashVars
    /\ invoked' = "none"

GhgInit ==
    /\ feedCostPerKg = 38
    /\ params = InitParams
    /\ query = <<>>
    /\ messages = InitMessages
    /\ suggestions = <<>>
    /\ yieldData = InitYieldData
    /\ effectPending = TRUE

GhgNext ==
    \/ \E raw \in FeedInputs : FeedInputChange(raw)
    \/ \E raw \in NitrogenInputs : NitrogenInputChange(raw)
    \/ \E raw \in CostInputs : FeedCostInputChange(raw)
    \/ \E q \in QueryTexts : SetQuery(q)
    \/ handleQuerySubmit
    \/ SuggestionsEffect

----------------------------------------------------------------------------
(* FarmDashboard and ChatWindow *)

\* FARM_CONSTANTS.COSTS.BASE_OPERATIONAL, 0.20
BASE_OPERATIONAL == Dec(20, 100)

\* FARM_CONSTANTS.COSTS.FEED_PER_KG, 0.38
FEED_PER_KG == Dec(38, 100)

\* FARM_CONSTANTS.BASELINES.FEED, 8.08
BASELINE_FEED == Dec(808, 100)

\* FARM_CONSTANTS.BASELINES.NITROGEN
BASELINE_NITROGEN == 180

\* FARM_CONSTANTS.THRESHOLDS.emissions, 1.5
THRESHOLD_EMISSIONS == Dec(15, 10)

\* FARM_CONSTANTS.THRESHOLDS.costPerLitre, 0.35
THRESHOLD_COST_PER_LITRE == Dec(35, 100)

\* a position of the feed slider (min 0, max 20, step 0.1), in tenths
SliderFeed(tenths) == Dec(tenths, 10)

\* positions of the feed slider: both ends, and 10.5, of which 99 % is a
\* double just below 10.395
FeedSliderValues == {SliderFeed(0), SliderFeed(105), SliderFeed(200)}

\* the right end of the feed slider
FeedSliderMax == SliderFeed(200)

\* positions of the nitrogen slider (min 0, max 300, step 1)
NitrogenSliderValues == {0, 300}

\* Math.max of two numbers
MathMax(x, y) == IF FLess(x, y) THEN y ELSE x

\* baseMetrics of the metrics memo
baseMetrics(p) ==
    [emissions |->
        FAdd(Lit_1_39, FMul(Lit_0_05, FSub(p.concentrateFeed, BASELINE_FEED))),
     yield |->
        FAdd(Lit_8750, FMul(Lit_100, FSub(p.concentrateFeed, BASELINE_FEED))),
     proteinEfficiency |->
        FSub(Lit_14_3, FMul(Lit_0_1, FSub(p.concentrateFeed, BASELINE_FEED))),
     nitrogenEfficiency |->
        FSub(Lit_17_6,
             FMul(Lit_0_02,
                  FSub(FromInt(p.nitrogenRate), FromInt(BASELINE_NITROGEN))))]

\* efficiencyScore, were the environmental score not clamped at 0
efficiencyScore_Unclamped(base) ==
    [environmental |->
        FSub(Lit_100,
             FMul(FDiv(base.emissions, THRESHOLD_EMISSIONS), Lit_100)),
     economic |->
        MathMax(Zero,
                FSub(Lit_100,
                     FMul(FDiv(FMul(base.yield, BASE_OPERATIONAL),
                               THRESHOLD_COST_PER_LITRE),
                          Lit_100))),
     operational |->
        FDiv(FAdd(base.proteinEfficiency, base.nitrogenEfficiency), Lit_2)]

\* efficiencyScore of the metrics memo:
\*   environmental = Math.max(0, 100 - (emissions / 1.5) * 100)
\*   economic      = Math.max(0, 100 - (yield * 0.20 / 0.35) * 100)
\*   operational   = (proteinEfficiency + nitrogenEfficiency) / 2
efficiencyScore(base) ==
    [environmental |->
        MathMax(Zero,
                FSub(Lit_100,
                     FMul(FDiv(base.emissions, THRESHOLD_EMISSIONS), Lit_100))),
     economic |->
        MathMax(Zero,
                FSub(Lit_100,
                     FMul(FDiv(FMul(base.yield, BASE_OPERATIONAL),
                               THRESHOLD_COST_PER_LITRE),
                          Lit_100))),
     operational |->
        FDiv(FAdd(base.proteinEfficiency, base.nitrogenEfficiency), Lit_2)]

\* totalScore of the metrics memo
totalScore(efficiency) ==
    FDiv(FAdd(FAdd(efficiency.environmental, efficiency.economic),
              efficiency.operational),
         Lit_3)

\* the metrics memo of FarmDashboard, a function of state.params
Metrics(st) ==
    LET base == baseMetrics(st.params)
        efficiency == efficiencyScore(base)
    IN  [base |-> base, efficiency |-> efficiency,
         totalScore |-> totalScore(efficiency)]

\* value.toFixed(2) of MetricDisplay, in hundredths
DisplayFixed2(value) == toFixed(value, 2)

\* "show"
L_Show == <<"s", "h", "o", "w">>
\* "emissions"
L_Emissions == <<"e", "m", "i", "s", "s", "i", "o", "n", "s">>
\* "analyze"
L_Analyze == <<"a", "n", "a", "l", "y", "z", "e">>
\* "efficiency"
L_Efficiency == <<"e", "f", "f", "i", "c", "i", "e", "n", "c", "y">>
\* "reduce feed"
L_ReduceFeed == <<"r", "e", "d", "u", "c", "e", " ", "f", "e", "e", "d">>
\* "reduce feed by "
L_ReduceFeedBy == <<"r", "e", "d", "u", "c", "e", " ", "f", "e", "e", "d", " ", "b", "y", " ">>

\* the last index of the run of digits of s that starts at j (j - 1 when
\* s[j] is no digit)
DigitRunEnd(s, j) ==
    CHOOSE e \in (j - 1)..Len(s) :
        /\ \A i \in j..e : IsDigit(s[i])
        /\ (e = Len(s) \/ ~IsDigit(s[e + 1]))

\* /reduce feed by (\d+)%/ matches s at index i
MatchesAt(s, i) ==
    /\ i + Len(L_ReduceFeedBy) - 1 <= Len(s)
    /\ SubSeq(s, i, i + Len(L_ReduceFeedBy) - 1) = L_ReduceFeedBy
    /\ LET j == i + Len(L_ReduceFeedBy)
           e == DigitRunEnd(s, j)
       IN  e >= j /\ e + 1 <= Len(s) /\ s[e + 1] = "%"

\* normalizedQuery.match(/reduce feed by (\d+)%/): the captured digits of
\* the leftmost match, <<>> when there is none (null)
matchReduceFeedBy(s) ==
    LET at == {i \in 1..Len(s) : MatchesAt(s, i)}
    IN  IF at = {} THEN <<>>
        ELSE LET i == CHOOSE x \in at : \A y \in at : x <= y
                 j == i + Len(L_ReduceFeedBy)
             IN  SubSeq(s, j, DigitRunEnd(s, j))

\* getHistoricalData: the number of points it returns
getHistoricalData(farmState) ==
    [periods |-> IF farmState.selectedTimeframe = "6m" THEN 6 ELSE 12]

\* reductionPercentage <= 0 || reductionPercentage > 100, were only the
\* upper limit tested
InvalidPercentage_UpperOnly(reductionPercentage) == reductionPercentage > 100

\* reductionPercentage <= 0 || reductionPercentage > 100, were only the
\* lower limit tested
InvalidPercentage_LowerOnly(reductionPercentage) == reductionPercentage <= 0

\* reductionPercentage <= 0 || reductionPercentage > 100
InvalidPercentage(reductionPercentage) ==
    reductionPercentage <= 0 \/ reductionPercentage > 100

\* newFeed, were the feed reduced to the percentage instead of by it
ReducedFeed_ToPercentage(currentFeed, reductionPercentage) ==
    FMul(currentFeed, FDiv(FromInt(reductionPercentage), Lit_100))

\* newFeed, were the percentage taken off as a number of kg/day
ReducedFeed_Absolute(currentFeed, reductionPercentage) ==
    FSub(currentFeed, FromInt(reductionPercentage))

\* const newFeed = currentFeed * (1 - reductionPercentage / 100)
ReducedFeed(currentFeed, reductionPercentage) ==
    FMul(currentFeed, FSub(Lit_1, FDiv(FromInt(reductionPercentage), Lit_100)))

\* const normalizedQuery = query.toLowerCase().trim()
Normalize(q) == trim(toLowerCase(q))

\* rule 1: contains "show" and "emissions"
Rule1Matches(nq) == includes(nq, L_Show) /\ includes(nq, L_Emissions)

\* rule 2: contains "analyze" and "efficiency"
Rule2Matches(nq) == includes(nq, L_Analyze) /\ includes(nq, L_Efficiency)

\* rule 3: contains "reduce feed"
Rule3Matches(nq) == includes(nq, L_ReduceFeed)

\* Each response is the content of the system message and the feed handed
\* to setFarmState (<<>> when setFarmState is not called).  Of the
\* confirmation of rule 3 the model keeps the percentage and
\* newFeed.toFixed(2), in hundredths.

\* rule 1: the chart of getHistoricalData()
ShowEmissionsResponse(farmState) ==
    [content |-> [kind |-> "trend", data |-> getHistoricalData(farmState)],
     setFarmState |-> <<>>]

\* rule 2: one MetricDisplay per entry of metrics.efficiency
AnalyzeEfficiencyResponse(metrics) ==
    [content |-> [kind |-> "efficiency",
                  environmental |-> DisplayFixed2(metrics.efficiency.environmental),
                  economic |-> DisplayFixed2(metrics.efficiency.economic),
                  operational |-> DisplayFixed2(metrics.efficiency.operational)],
     setFarmState |-> <<>>]

\* rule 3
ReduceFeedResponse(nq, farmState) ==
    LET match == matchReduceFeedBy(nq)
        reductionPercentage == parseInt(match)
        currentFeed == farmState.params.concentrateFeed
        newFeed == ReducedFeed(currentFeed, reductionPercentage)
    IN  IF match # <<>>
        THEN IF InvalidPercentage(reductionPercentage)
             THEN [content |-> [kind |-> "invalidPercentage"],
                   setFarmState |-> <<>>]
             ELSE [content |-> [kind |-> "feedReduced",
                                reductionPercentage |-> reductionPercentage,
                                newFeed |-> toFixed(newFeed, 2)],
                   setFarmState |-> <<newFeed>>]
        ELSE [content |-> [kind |-> "specifyPercentage"], setFarmState |-> <<>>]

\* the default response
HelpResponse == [content |-> [kind |-> "help"], setFarmState |-> <<>>]

\* processQuery, were the "reduce feed" rule tried first
processQuery_ReduceFirst(q, farmState, metrics) ==
    LET normalizedQuery == Normalize(q)
    IN  IF Rule3Matches(normalizedQuery)
        THEN ReduceFeedResponse(normalizedQuery, farmState)
        ELSE IF Rule1Matches(normalizedQuery) THEN ShowEmissionsResponse(farmState)
        ELSE IF Rule2Matches(normalizedQuery) THEN AnalyzeEfficiencyResponse(metrics)
        ELSE HelpResponse

processQuery(q, farmState, metrics) ==
    LET normalizedQuery == Normalize(q)
    IN  IF Rule1Matches(normalizedQuery) THEN ShowEmissionsResponse(farmState)
        ELSE IF Rule2Matches(normalizedQuery) THEN AnalyzeEfficiencyResponse(metrics)
        ELSE IF Rule3Matches(normalizedQuery)
             THEN ReduceFeedResponse(normalizedQuery, farmState)
        ELSE HelpResponse

\* the updater handed to setFarmState, were its result lost
applyFarmState_Dropped(prevState, update) == prevState

\* the updater handed to setFarmState, were the previous state not spread
\* into the new one (selectedTimeframe is then undefined)
applyFarmState_ParamsOnly(prevState, update) ==
    IF update = <<>> THEN prevState
    ELSE [params |-> [prevState.params EXCEPT !.concentrateFeed = update[1]],
          selectedTimeframe |-> "undefined"]

\* the updater handed to setFarmState, applied to the stored state
applyFarmState(prevState, update) ==
    IF update = <<>> THEN prevState
    ELSE [prevState EXCEPT !.params.concentrateFeed = update[1]]

\* Texts typed into the chat box
\* ""
U_Empty == <<>>
\* "   "
U_Blank == <<" ", " ", " ">>
\* "Show me emissions"
U_Show == <<"S", "h", "o", "w", " ", "m", "e", " ", "e", "m", "i", "s", "s", "i", "o", "n", "s">>
\* "analyze efficiency"
U_Analyze == <<"a", "n", "a", "l", "y", "z", "e", " ", "e", "f", "f", "i", "c", "i", "e", "n", "c", "y">>
\* "reduce feed by 20%"
U_Reduce20 == <<"r", "e", "d", "u", "c", "e", " ", "f", "e", "e", "d", " ", "b", "y", " ", "2", "0", "%">>
\* "What if I reduce feed by 50%?"
U_WhatIf50 == <<"W", "h", "a", "t", " ", "i", "f", " ", "I", " ", "r", "e", "d", "u", "c", "e", " ", "f", "e", "e", "d", " ", "b", "y", " ", "5", "0", "%", "?">>
\* "reduce feed by 100%"
U_Reduce100 == <<"r", "e", "d", "u", "c", "e", " ", "f", "e", "e", "d", " ", "b", "y", " ", "1", "0", "0", "%">>
\* "Reduce feed by 1%"
U_Reduce1 == <<"R", "e", "d", "u", "c", "e", " ", "f", "e", "e", "d", " ", "b", "y", " ", "1", "%">>
\* "reduce feed by 0%"
U_Reduce0 == <<"r", "e", "d", "u", "c", "e", " ", "f", "e", "e", "d", " ", "b", "y", " ", "0", "%">>
\* "reduce feed by 150%"
U_Reduce150 == <<"r", "e", "d", "u", "c", "e", " ", "f", "e", "e", "d", " ", "b", "y", " ", "1", "5", "0", "%">>
\* "reduce feed"
U_ReduceNoPct == <<"r", "e", "d", "u", "c", "e", " ", "f", "e", "e", "d">>
\* "banana"
U_Banana == <<"b", "a", "n", "a", "n", "a">>
\* "show emissions, reduce feed by 20%"
U_ShowReduce == <<"s", "h", "o", "w", " ", "e", "m", "i", "s", "s", "i", "o", "n", "s", ",", " ", "r", "e", "d", "u", "c", "e", " ", "f", "e", "e", "d", " ", "b", "y", " ", "2", "0", "%">>
\* "analyze efficiency then reduce feed by 20%"
U_AnalyzeReduce == <<"a", "n", "a", "l", "y", "z", "e", " ", "e", "f", "f", "i", "c", "i", "e", "n", "c", "y", " ", "t", "h", "e", "n", " ", "r", "e", "d", "u", "c", "e", " ", "f", "e", "e", "d", " ", "b", "y", " ", "2", "0", "%">>

\* "show emissions and analyze efficiency"
U_ShowAnalyze == <<"s", "h", "o", "w", " ", "e", "m", "i", "s", "s", "i", "o", "n", "s", " ", "a", "n", "d", " ", "a", "n", "a", "l", "y", "z", "e", " ", "e", "f", "f", "i", "c", "i", "e", "n", "c", "y">>

ChatTexts ==
    {U_Empty, U_Blank, U_Show, U_Analyze, U_Reduce20, U_WhatIf50, U_Reduce100,
     U_Reduce1, U_Reduce0, U_Reduce150, U_ReduceNoPct, U_Banana, U_ShowReduce,
     U_AnalyzeReduce, U_ShowAnalyze}

WelcomeMessage == [type |-> "system", content |-> [kind |-> "welcome"]]

\* the user message, were the normalized text logged
UserMessage_Normalized(text) ==
    [type |-> "user", content |-> [kind |-> "text", text |-> Normalize(text)]]

UserMessage(text) == [type |-> "user", content |-> [kind |-> "text", text |-> text]]

SystemMessage(content) == [type |-> "system", content |-> content]

\* the mount effect of ChatWindow: setMessages([welcomeMessage])
WelcomeEffect ==
    /\ welcomePending
    /\ chatMessages' = <<WelcomeMessage>>
    /\ welcomePending' = FALSE
    /\ UNCHANGED <<state, input>>
    /\ UNCHANGED ghgVars
    /\ invoked' = "none"

\* onValueChange of the feed slider
FeedSliderChange(value) ==
    /\ ~welcomePending
    /\ state' = [state EXCEPT !.params.concentrateFeed = value]
    /\ UNCHANGED <<chatMessages, input, welcomePending>>
    /\ UNCHANGED ghgVars
    /\ invoked' = "none"

\* onValueChange of the nitrogen slider
NitrogenSliderChange(value) ==
    /\ ~welcomePending
    /\ state' = [state EXCEPT !.params.nitrogenRate = value]
    /\ UNCHANGED <<chatMessages, input, welcomePending>>
    /\ UNCHANGED ghgVars
    /\ invoked' = "none"

\* onChange of the chat box
SetInput(text) ==
    /\ ~welcomePending
    /\ input' = text
    /\ UNCHANGED <<state, chatMessages, welcomePending>>
    /\ UNCHANGED ghgVars
    /\ invoked' = "none"

handleSend ==
    /\ ~welcomePending
    /\ Len(chatMessages) + 2 <= MaxChatMessages
    /\ IF trim(input) = <<>>
       THEN UNCHANGED <<state, chatMessages, input>>
       ELSE LET response == processQuery(input, state, Metrics(state))
            IN  /\ chatMessages' =
                       Append(Append(chatMessages, UserMessage(input)),
                              SystemMessage(response.content))
                /\ input' = <<>>
                /\ state' = applyFarmState(state, response.setFarmState)
    /\ UNCHANGED welcomePending
    /\ UNCHANGED ghgVars
    /\ invoked' = "handleSend"

DashInit ==
    /\ state = [params |-> [concentrateFeed |-> BASELINE_FEED,
                            nitrogenRate |-> BASELINE_NITROGEN],
                selectedTimeframe |-> "6m"]
    /\ chatMessages = <<>>
    /\ input = <<>>
    /\ welcomePending = TRUE

DashNext ==
    \/ WelcomeEffect
    \/ \E value \in FeedSliderValues : FeedSliderChange(value)
    \/ \E value \in NitrogenSliderValues : NitrogenSliderChange(value)
    \/ \E text \in ChatTexts : SetInput(text)
    \/ handleSend

----------------------------------------------------------------------------
(* Specifications: the two components are separate programs *)

Init == GhgInit /\ DashInit /\ invoked = "none"

GhgSpec == Init /\ [][GhgNext]_vars

DashSpec == Init /\ [][DashNext]_vars

\* the command handlers of both components and the effects that precede
\* them, with the parameters left as they are
CommandNext ==
    \/ SuggestionsEffect
    \/ \E q \in QueryTexts : SetQuery(q)
    \/ handleQuerySubmit
    \/ WelcomeEffect
    \/ \E text \in ChatTexts : SetInput(text)
    \/ handleSend

CommandSpec == Init /\ [][CommandNext]_vars

\* commands typed while the scores of FarmDashboard are followed
ScoreTexts == {U_Analyze, U_Reduce1, U_Reduce20, U_Reduce100}

\* the sliders of FarmDashboard and the commands that write the feed
ScoreNext ==
    \/ WelcomeEffect
    \/ \E value \in FeedSliderValues : FeedSliderChange(value)
    \/ \E value \in NitrogenSliderValues : NitrogenSliderChange(value)
    \/ \E text \in ScoreTexts : SetInput(text)
    \/ handleSend

ScoreSpec == Init /\ [][ScoreNext]_vars

----------------------------------------------------------------------------
(* Properties of the command interpreter of ChatWindow *)

\* a step in which handleSend logged a command
ChatSent == ~welcomePending /\ Len(chatMessages') = Len(chatMessages) + 2

LastChat == chatMessages[Len(chatMessages)]

\* the text is dispatched to rule 3: neither rule 1 nor rule 2 matches it
ReachesRule3(text) ==
    LET nq == Normalize(text)
    IN  ~Rule1Matches(nq) /\ ~Rule2Matches(nq) /\ Rule3Matches(nq)

\* the regular expression captures a percentage in the text
Captures(text) == matchReduceFeedBy(Normalize(text)) # <<>>

CapturedPercentage(text) == parseInt(matchReduceFeedBy(Normalize(text)))

\* a "reduce feed" command with a percentage from 1 to 100
ValidReduce(text) ==
    /\ ReachesRule3(text)
    /\ Captures(text)
    /\ CapturedPercentage(text) >= 1
    /\ CapturedPercentage(text) <= 100

\* C2: a command that reaches rule 3 with a captured percentage P,
\* 1 <= P <= 100, sets concentrateFeed to currentFeed * (1 - P/100), the
\* feed stored when the command is handled, and leaves nitrogenRate and
\* selectedTimeframe as they were; 20 % of 8.08 leaves 6.464.
C2_ValidReduceScalesFeed ==
    [][(ChatSent /\ ValidReduce(input)) =>
        LET P == CapturedPercentage(input)
        IN  /\ state'.params.concentrateFeed
                   = FMul(state.params.concentrateFeed,
                          FSub(Lit_1, FDiv(FromInt(P), Lit_100)))
            /\ state'.params.nitrogenRate = state.params.nitrogenRate
            /\ state'.selectedTimeframe = state.selectedTimeframe
            /\ (P = 20 /\ state.params.concentrateFeed = BASELINE_FEED
                    => state'.params.concentrateFeed = Dec(6464, 1000))
      ]_vars

\* "reduce feed by 20%" was handled at feed 8.08 and the feed is 6.464
C2_Witness ==
    /\ Len(chatMessages) >= 3
    /\ chatMessages[Len(chatMessages) - 1] = UserMessage(U_Reduce20)
    /\ LastChat.content.kind = "feedReduced"
    /\ LastChat.content.reductionPercentage = 20
    /\ state.params.concentrateFeed = Dec(6464, 1000)

\* C3: a "reduce feed" command whose captured percentage is 0 or above 100
\* gets the validation-error response and leaves concentrateFeed and
\* nitrogenRate exactly as they were.
C3_InvalidPercentageRejected ==
    [][(/\ ChatSent
        /\ ReachesRule3(input)
        /\ Captures(input)
        /\ (CapturedPercentage(input) = 0 \/ CapturedPercentage(input) > 100))
       =>
        /\ chatMessages'[Len(chatMessages')] =
               SystemMessage([kind |-> "invalidPercentage"])
        /\ state'.params = state.params
      ]_vars

\* "reduce feed by 150%" and "reduce feed by 0%" were both answered with the
\* validation error, at a feed that a reduction would have changed
C3_Witness ==
    /\ Len(chatMessages) = 5
    /\ chatMessages[2] = UserMessage(U_Reduce150)
    /\ chatMessages[3].content.kind = "invalidPercentage"
    /\ chatMessages[4] = UserMessage(U_Reduce0)
    /\ chatMessages[5].content.kind = "invalidPercentage"
    /\ state.params.concentrateFeed = BASELINE_FEED

\* C4: the interpreter writes the farm state only on the rule 3 path with
\* a valid percentage: any other command (show emissions, analyze
\* efficiency, "reduce feed" without a percentage, no rule at all) leaves
\* concentrateFeed, nitrogenRate and selectedTimeframe as they were, and a
\* command that matches no rule gets the fixed help response.
C4_OnlyValidReduceWrites ==
    [][(ChatSent /\ ~ValidReduce(input)) =>
        /\ state' = state
        /\ LET nq == Normalize(input)
           IN  (~Rule1Matches(nq) /\ ~Rule2Matches(nq) /\ ~Rule3Matches(nq))
                   => chatMessages'[Len(chatMessages')] =
                          SystemMessage([kind |-> "help"])
      ]_vars

\* "reduce feed" got the request for a percentage and "banana" the help
\* response, at a feed that a reduction would have changed
C4_Witness ==
    /\ Len(chatMessages) = 5
    /\ chatMessages[2] = UserMessage(U_ReduceNoPct)
    /\ chatMessages[3].content.kind = "specifyPercentage"
    /\ chatMessages[4] = UserMessage(U_Banana)
    /\ chatMessages[5].content.kind = "help"
    /\ state.params.concentrateFeed = BASELINE_FEED

\* C6: dispatch is ordered and the first matching rule wins: a command
\* that satisfies rule 1 gets the rule 1 response, one that satisfies
\* rule 2 and not rule 1 gets the rule 2 response, and in both cases the
\* farm state is not written, whatever later rule the command also
\* satisfies ("reduce feed by 20%" included).
C6_FirstMatchWins ==
    [][ChatSent =>
        LET nq == Normalize(input)
            response == chatMessages'[Len(chatMessages')]
        IN  /\ Rule1Matches(nq) =>
                   response.content.kind = "trend" /\ state' = state
            /\ (~Rule1Matches(nq) /\ Rule2Matches(nq)) =>
                   response.content.kind = "efficiency" /\ state' = state
      ]_vars

\* commands that satisfy rule 1 and rule 3, and rule 2 and rule 3, got
\* the trend and the efficiency response, at a feed that a reduction would
\* have changed
C6_Witness ==
    /\ Len(chatMessages) = 5
    /\ chatMessages[2] = UserMessage(U_ShowReduce)
    /\ chatMessages[3].content.kind = "trend"
    /\ chatMessages[4] = UserMessage(U_AnalyzeReduce)
    /\ chatMessages[5].content.kind = "efficiency"
    /\ state.params.concentrateFeed = BASELINE_FEED

\* C8: when the confirmation of a valid "reduce feed" command is appended
\* to the log, the stored concentrateFeed is the new feed of the percentage
\* the message reports, the feed the message shows is that feed to two
\* decimals, and the metrics in effect are those of the new feed.
C8_ConfirmationMatchesState ==
    [][(ChatSent /\ chatMessages'[Len(chatMessages')].content.kind = "feedReduced")
       =>
        LET m == chatMessages'[Len(chatMessages')].content
            newFeed == ReducedFeed(state.params.concentrateFeed,
                                   m.reductionPercentage)
        IN  /\ state'.params.concentrateFeed = newFeed
            /\ m.newFeed = toFixed(state'.params.concentrateFeed, 2)
            /\ Metrics(state') =
                   Metrics([state EXCEPT !.params.concentrateFeed = newFeed])
      ]_vars

\* "Reduce feed by 1%" at the slider's 10.5 was confirmed with 10.39: the
\* stored double, 10.5 * 0.99, lies just below 10.395
C8_Witness ==
    /\ Len(chatMessages) >= 3
    /\ chatMessages[Len(chatMessages) - 1] = UserMessage(U_Reduce1)
    /\ LastChat.content.kind = "feedReduced"
    /\ LastChat.content.newFeed = 1039
    /\ state.params.concentrateFeed
           = FMul(SliderFeed(105), FSub(Lit_1, FDiv(Lit_1, Lit_100)))

----------------------------------------------------------------------------
(* Properties of the command handlers of both components *)

\* handleSend has appended the raw text of the chat box and then a system
\* message
SendAppendsTwo ==
    /\ Len(chatMessages') = Len(chatMessages) + 2
    /\ SubSeq(chatMessages', 1, Len(chatMessages)) = chatMessages
    /\ chatMessages'[Len(chatMessages) + 1] =
           [type |-> "user", content |-> [kind |-> "text", text |-> input]]
    /\ chatMessages'[Len(chatMessages) + 2].type = "system"

\* handleQuerySubmit has appended the raw text of the query box and then a
\* response
SubmitAppendsTwo ==
    /\ Len(messages') = Len(messages) + 2
    /\ SubSeq(messages', 1, Len(messages)) = messages
    /\ messages'[Len(messages) + 1] =
           [type |-> "query", text |-> [kind |-> "text", text |-> query]]
    /\ messages'[Len(messages) + 2].type = "info"

\* C5 as stated: every invocation of handleSend and of handleQuerySubmit,
\* whatever the text (empty and blank text included), appends exactly two
\* entries: the user's raw text, then the system's response.
C5_EveryInvocationAppendsTwo ==
    [][/\ invoked' = "handleSend" => SendAppendsTwo
       /\ invoked' = "handleQuerySubmit" => SubmitAppendsTwo
      ]_vars

\* C5 as amended: an invocation whose text is not empty after trimming
\* appends exactly two entries, the user's raw text and then the system's
\* response (an error response included); an invocation with empty or
\* blank text appends nothing.
C5_NonBlankInvocationAppendsTwo ==
    [][/\ invoked' = "handleSend" =>
              IF trim(input) # <<>> THEN SendAppendsTwo
              ELSE chatMessages' = chatMessages
       /\ invoked' = "handleQuerySubmit" =>
              IF trim(query) # <<>> THEN SubmitAppendsTwo
              ELSE messages' = messages
      ]_vars

\* both handlers have run: "reduce feed by 150%" got the error response in
\* the chat, and "Emissions?" its answer in the analysis feed
C5_Witness ==
    /\ Len(chatMessages) = 3
    /\ chatMessages[2].content.text = U_Reduce150
    /\ chatMessages[3].content.kind = "invalidPercentage"
    /\ Len(messages) = 3
    /\ messages[2].text.text = Q_Emissions
    /\ messages[3].text.kind = "emission"

----------------------------------------------------------------------------
(* Properties of GHGToolEnhanced *)

\* C1: in every state the stored emissions, yield, costPerLitre,
\* proteinEfficiency and nitrogenEfficiency are the calculation functions
\* applied to the stored concentrateFeed, the stored nitrogenRate and the
\* stored feedCostPerKg.
C1_StoredMetricsMatchEngine ==
    params = NewParams(params.concentrateFeed, params.nitrogenRate, feedCostPerKg)

\* C7: in every state that can be observed the stored suggestions are
\* generateSuggestions of the stored parameters, and once a parameter
\* update has been made its summary's new values and the newest trend point
\* are those of the stored parameters.
C7_NoPartialUpdate ==
    /\ suggestions = generateSuggestions(params)
    /\ messages[Len(messages)].text.kind = "summary" =>
           /\ messages[Len(messages)].text.new = params
           /\ yieldData[Len(yieldData)].yield = params.yield
           /\ yieldData[Len(yieldData)].cost = params.costPerLitre

\* C9: the stored costPerLitre is never NaN or an infinity.
C9_CostPerLitreFinite == IsFinite(params.costPerLitre)

\* C10: concentrateFeed >= 0 and nitrogenRate >= 0 in every state.
C10_ParametersNonNegative ==
    params.concentrateFeed >= 0 /\ params.nitrogenRate >= 0

----------------------------------------------------------------------------
(* The trend window of GHGToolEnhanced over a year of parameter updates *)

\* longest analysis feed explored when the trend window is followed round
\* the calendar: the welcome message and one summary per update
MaxTrendMessages == 10

\* values typed into the form while the trend window is followed
TrendFeedInputs == {Fin(1050)}

TrendNitrogenInputs == {Fin(25000)}

TrendCostInputs == {Fin(50), NaN}

\* onChange of the concentrate feed input
TrendFeedInputChange(raw) ==
    /\ ~effectPending
    /\ Len(messages) < MaxTrendMessages
    /\ UpdateParams(OrZero(raw), params.nitrogenRate)
    /\ UNCHANGED <<feedCostPerKg, query, suggestions>>
    /\ UNCHANGED dashVars
    /\ invoked' = "none"

\* onChange of the nitrogen input
TrendNitrogenInputChange(raw) ==
    /\ ~effectPending
    /\ Len(messages) < MaxTrendMessages
    /\ UpdateParams(params.concentrateFeed, OrZero(raw))
    /\ UNCHANGED <<feedCostPerKg, query, suggestions>>
    /\ UNCHANGED dashVars
    /\ invoked' = "none"

\* onChange of the feed cost input, calling handleFeedCostChange
TrendFeedCostInputChange(raw) ==
    LET newCost == OrZero(raw)
    IN  /\ ~effectPending
        /\ Len(messages) < MaxTrendMessages
        /\ IF CostAccepted(newCost)
           THEN /\ feedCostPerKg' = newCost
                /\ UpdateParams(params.concentrateFeed, params.nitrogenRate)
                /\ UNCHANGED <<query, suggestions>>
           ELSE UNCHANGED ghgVars
        /\ UNCHANGED dashVars
        /\ invoked' = "handleFeedCostChange"

TrendNext ==
    \/ \E raw \in TrendFeedInputs : TrendFeedInputChange(raw)
    \/ \E raw \in TrendNitrogenInputs : TrendNitrogenInputChange(raw)
    \/ \E raw \in TrendCostInputs : TrendFeedCostInputChange(raw)
    \/ SuggestionsEffect

TrendSpec == Init /\ [][TrendNext]_vars

\* a step in which updateParams ran: setParams was called, so that the
\* effect on params is due
UpdateParamsRan == ~effectPending /\ effectPending'

\* the calendar month after m, December being followed by January
FollowingMonth(m) ==
    CASE m = "Jan" -> "Feb" [] m = "Feb" -> "Mar" [] m = "Mar" -> "Apr"
      [] m = "Apr" -> "May" [] m = "May" -> "Jun" [] m = "Jun" -> "Jul"
      [] m = "Jul" -> "Aug" [] m = "Aug" -> "Sep" [] m = "Sep" -> "Oct"
      [] m = "Oct" -> "Nov" [] m = "Nov" -> "Dec" [] m = "Dec" -> "Jan"

\* C11: every call of updateParams keeps the length of the trend window
\* (the oldest point is dropped, the others move up, one point is appended)
\* and the appended point's month is the calendar month after the month of
\* the point that was newest, December being followed by January; this holds
\* for every call of a run of consecutive calls.
C11_TrendWindowSlides ==
    [][UpdateParamsRan =>
        /\ Len(yieldData') = Len(yieldData)
        /\ \A i \in 1..(Len(yieldData) - 1) : yieldData'[i] = yieldData[i + 1]
        /\ yieldData'[Len(yieldData')].month =
               FollowingMonth(yieldData[Len(yieldData)].month)
      ]_vars

\* nine updates were made: the window has gone round the year and holds
\* October, November, December and January
C11_Witness ==
    /\ Len(messages) = 10
    /\ Len(yieldData) = 4
    /\ yieldData[1].month = "Oct"
    /\ yieldData[2].month = "Nov"
    /\ yieldData[3].month = "Dec"
    /\ yieldData[4].month = "Jan"

----------------------------------------------------------------------------
(* The suggestion generators of both components *)

\* optimizationSuggestions, were rule 2 tried only when rule 1 does not fire
optimizationSuggestions_ElseIf(st, metrics) ==
    LET feed == st.params.concentrateFeed
        reducedFeed == FMul(feed, Lit_0_9)
        emissionsReduction ==
            FSub(metrics.base.emissions,
                 FAdd(Lit_1_39,
                      FMul(Lit_0_05, FSub(reducedFeed, BASELINE_FEED))))
        rule1 ==
            [priority |-> "high", category |-> "environmental",
             reducedFeed |-> toFixed(reducedFeed, 1),
             emissions |-> toFixed(FMul(emissionsReduction, Lit_100), 1),
             cost |-> toFixed(FMul(FMul(FSub(feed, reducedFeed), FEED_PER_KG),
                                   Lit_365), 2),
             yield |-> toFixed(FMul(FSub(FDiv(reducedFeed, feed), Lit_1),
                                    Lit_100), 1)]
        rule2 ==
            [priority |-> "medium", category |-> "operational",
             potential |->
                 toFixed(FSub(Lit_70, metrics.efficiency.operational), 1)]
    IN  IF FLess(THRESHOLD_EMISSIONS, metrics.base.emissions)
        THEN <<rule1>>
        ELSE IF FLess(metrics.efficiency.operational, Lit_70)
        THEN <<rule2>>
        ELSE <<>>

\* The optimizationSuggestions memo of FarmDashboard, a function of metrics
\* and state.params.  Of a suggestion's texts the model keeps the numbers:
\* of rule 1 reducedFeed.toFixed(1), (emissionsReduction * 100).toFixed(1)
\* and the yield impact in tenths and the annual savings in hundredths; of
\* rule 2 (70 - operational).toFixed(1) in tenths.
optimizationSuggestions(st, metrics) ==
    LET feed == st.params.concentrateFeed
        reducedFeed == FMul(feed, Lit_0_9)
        emissionsReduction ==
            FSub(metrics.base.emissions,
                 FAdd(Lit_1_39,
                      FMul(Lit_0_05, FSub(reducedFeed, BASELINE_FEED))))
        rule1 ==
            [priority |-> "high", category |-> "environmental",
             reducedFeed |-> toFixed(reducedFeed, 1),
             emissions |-> toFixed(FMul(emissionsReduction, Lit_100), 1),
             cost |-> toFixed(FMul(FMul(FSub(feed, reducedFeed), FEED_PER_KG),
                                   Lit_365), 2),
             yield |-> toFixed(FMul(FSub(FDiv(reducedFeed, feed), Lit_1),
                                    Lit_100), 1)]
        rule2 ==
            [priority |-> "medium", category |-> "operational",
             potential |->
                 toFixed(FSub(Lit_70, metrics.efficiency.operational), 1)]
    IN  (IF FLess(THRESHOLD_EMISSIONS, metrics.base.emissions)
         THEN <<rule1>> ELSE <<>>)
        \o
        (IF FLess(metrics.efficiency.operational, Lit_70)
         THEN <<rule2>> ELSE <<>>)

\* values typed into the form of GHGToolEnhanced while the suggestions are
\* followed: 10.28 gives emissions of exactly 1.5, 10.42 gives 1.51 and a
\* reduced feed of 9.38 whose emissions, as a double, lie just below 1.455,
\* 10.45 gives a reduced feed whose double lies just below 9.405, and 32
\* takes the protein efficiency below 12
SuggestFeedInputs == {Fin(1028), Fin(1042), Fin(1045), Fin(3200)}

\* 350 takes the nitrogen efficiency below 15
SuggestNitrogenInputs == {Fin(35000)}

\* positions of the feed slider of FarmDashboard on both sides of the
\* emissions threshold (10.2 gives 1.496, 10.3 gives 1.501); at 10.3 the
\* reported reduction, as a double, lies just below 5.15, and at 11.5 the
\* reduced feed lies just below 10.35
SuggestFeedSliderValues == {SliderFeed(102), SliderFeed(103), SliderFeed(115)}

\* a feed cost of 0.10 keeps the cost per litre at or below 0.35
SuggestCostInputs == {Fin(10)}

\* the parameter inputs of both components and the effects that follow them
SuggestNext ==
    \/ \E raw \in SuggestFeedInputs : FeedInputChange(raw)
    \/ \E raw \in SuggestNitrogenInputs : NitrogenInputChange(raw)
    \/ \E raw \in SuggestCostInputs : FeedCostInputChange(raw)
    \/ SuggestionsEffect
    \/ WelcomeEffect
    \/ \E value \in SuggestFeedSliderValues : FeedSliderChange(value)

SuggestSpec == Init /\ [][SuggestNext]_vars

\* the list of generateSuggestions holds the rule 1 suggestion
HasReduceFeedSuggestion(list) ==
    \E i \in 1..Len(list) :
        list[i].type = "emission" /\ list[i].priority = "high"

\* the list of optimizationSuggestions holds the rule 1 suggestion
HasReduceFeedOptimization(list) ==
    \E i \in 1..Len(list) :
        list[i].category = "environmental" /\ list[i].priority = "high"

\* C12: the rule 1 suggestion (reduce feed by 10 %, priority high) is in the
\* generated list exactly when the current emissions are strictly greater
\* than 1.5, and is absent at emissions of exactly 1.5: for
\* generateSuggestions on the stored emissions of GHGToolEnhanced (and so in
\* the stored list once the effect has run), and for
\* optimizationSuggestions on the emissions metric of FarmDashboard.
C12_Rule1IffAboveThreshold ==
    /\ HasReduceFeedSuggestion(generateSuggestions(params))
           <=> params.emissions > 150
    /\ ~effectPending =>
           (HasReduceFeedSuggestion(suggestions) <=> params.emissions > 150)
    /\ LET metrics == Metrics(state)
       IN  HasReduceFeedOptimization(optimizationSuggestions(state, metrics))
               <=> FLess(THRESHOLD_EMISSIONS, metrics.base.emissions)

\* GHGToolEnhanced holds emissions of exactly 1.5 (feed 10.28) and its list,
\* once generated, has no rule 1 suggestion, while FarmDashboard at feed
\* 10.3 (emissions 1.501) has one
C12_Witness ==
    /\ params.concentrateFeed = 1028
    /\ params.emissions = 150
    /\ ~effectPending
    /\ ~HasReduceFeedSuggestion(suggestions)
    /\ state.params.concentrateFeed = SliderFeed(103)
    /\ HasReduceFeedOptimization(optimizationSuggestions(state, Metrics(state)))

\* the position of a rule of generateSuggestions in the code
RuleOrder(type) ==
    CASE type = "emission" -> 1
      [] type = "nitrogen" -> 2
      [] type = "protein" -> 3
      [] type = "cost" -> 4

\* the metrics p put the rule of the given type over its threshold
RuleFires(type, p) ==
    CASE type = "emission" -> p.emissions > 150
      [] type = "nitrogen" -> p.nitrogenEfficiency < 1500
      [] type = "protein" -> p.proteinEfficiency < 1200
      [] type = "cost" -> JsGreater(p.costPerLitre, 35)

\* the list holds exactly the rules that fire on p, each once, in the order
\* of the code, each with its fixed priority
InFixedRuleOrder(list, p) ==
    /\ \A type \in {"emission", "nitrogen", "protein", "cost"} :
           (\E i \in 1..Len(list) : list[i].type = type) <=> RuleFires(type, p)
    /\ \A i, j \in 1..Len(list) :
           i < j => RuleOrder(list[i].type) < RuleOrder(list[j].type)
    /\ \A i \in 1..Len(list) :
           list[i].priority =
               (IF list[i].type \in {"emission", "cost"} THEN "high" ELSE "medium")

\* C13: generateSuggestions tests each rule on the current metrics alone and
\* emits the rules that fire in the fixed order emissions, nitrogen
\* efficiency < 15, protein efficiency < 12, cost per litre > 0.35, never
\* ordered by priority (a medium suggestion may precede a high one); whether
\* a rule is in the list depends on its own condition only.  The stored list
\* is such a list once the effect has run.
C13_FixedRuleOrder ==
    /\ InFixedRuleOrder(generateSuggestions(params), params)
    /\ ~effectPending => InFixedRuleOrder(suggestions, params)

\* at nitrogen 350 and feed 32 all four rules fire, and the stored list has
\* the medium nitrogen and protein suggestions before the high cost
\* suggestion
C13_Witness ==
    /\ ~effectPending
    /\ params.nitrogenRate = 35000
    /\ params.concentrateFeed = 3200
    /\ Len(suggestions) = 4
    /\ suggestions[1].type = "emission" /\ suggestions[1].priority = "high"
    /\ suggestions[2].type = "nitrogen" /\ suggestions[2].priority = "medium"
    /\ suggestions[3].type = "protein" /\ suggestions[3].priority = "medium"
    /\ suggestions[4].type = "cost" /\ suggestions[4].priority = "high"

\* the entry of rule 1 in a list of generateSuggestions
ReduceFeedSuggestion(list) ==
    list[CHOOSE i \in 1..Len(list) : list[i].type = "emission"]

\* the entry of rule 1 in a list of optimizationSuggestions
ReduceFeedOptimization(list) ==
    list[CHOOSE i \in 1..Len(list) : list[i].category = "environmental"]

\* C14: when rule 1 fires for feed F, the reduction percentage it reports is
\* (emissions(F) - emissions(0.9 F)) / emissions(F) * 100 to one decimal,
\* the reduction relative to the current emissions: for generateSuggestions
\* with the emissions of calculateEmissions, and for optimizationSuggestions
\* with the emissions of the metrics memo.
C14_ReductionRelativeToCurrent ==
    /\ (~effectPending /\ HasReduceFeedSuggestion(suggestions)) =>
           LET F == Hundredths(params.concentrateFeed)
               current == Hundredths(calculateEmissions(params.concentrateFeed))
               reduced ==
                   Hundredths(toFixed(
                       FAdd(Lit_1_39,
                            FMul(Lit_0_05, FSub(FMul(F, Lit_0_9), Lit_8_08))), 2))
           IN  ReduceFeedSuggestion(suggestions).emissionsReduction
                   = toFixed(FMul(FDiv(FSub(current, reduced), current),
                                  Lit_100), 1)
    /\ LET metrics == Metrics(state)
           list == optimizationSuggestions(state, metrics)
           F == state.params.concentrateFeed
           current == metrics.base.emissions
           reduced ==
               FAdd(Lit_1_39,
                    FMul(Lit_0_05, FSub(FMul(F, Lit_0_9), BASELINE_FEED)))
       IN  HasReduceFeedOptimization(list) =>
               ReduceFeedOptimization(list).emissions
                   = toFixed(FMul(FDiv(FSub(current, reduced), current),
                                  Lit_100), 1)

----------------------------------------------------------------------------
(* The feed cost and the analysis feed of GHGToolEnhanced *)

\* C15: a feed-cost change is accepted only when the new cost is a number
\* strictly greater than 0, so feedCostPerKg > 0 in every state; a change
\* to NaN (an empty box), 0 or a negative cost is rejected and leaves
\* feedCostPerKg, the parameters with their derived metrics, the analysis
\* feed and the trend window as they were.
C15_FeedCostAcceptedOnlyPositive ==
    /\ [](feedCostPerKg > 0)
    /\ [][\A raw \in CostInputs :
            FeedCostInputChange(raw) =>
                IF raw.k = "fin" /\ raw.v > 0
                THEN feedCostPerKg' = raw.v
                ELSE UNCHANGED <<feedCostPerKg, params, messages, yieldData>>
         ]_vars

\* a cost of 0.5 was accepted, its suggestions were generated, and the last
\* step was a feed-cost change that was rejected
C15_Witness ==
    /\ invoked = "handleFeedCostChange"
    /\ ~effectPending
    /\ feedCostPerKg = 50
    /\ messages[Len(messages)].type = "alert"

\* C16: the analysis feed is append-only: over parameter updates, feed-cost
\* changes and queries every step leaves the feed it found as a prefix of
\* the feed it leaves (no entry is removed, reordered, replaced or
\* deduplicated), and every call of updateParams appends exactly one entry,
\* a change summary of type alert.
C16_LogAppendOnly ==
    [][/\ Len(messages') >= Len(messages)
       /\ SubSeq(messages', 1, Len(messages)) = messages
       /\ UpdateParamsRan =>
              /\ Len(messages') = Len(messages) + 1
              /\ messages'[Len(messages')].type = "alert"
              /\ messages'[Len(messages')].text.kind = "summary"
              /\ messages'[Len(messages')].text.old = params
              /\ messages'[Len(messages')].text.new = params'
      ]_vars

\* a feed-cost change made a parameter update and then a query was
\* answered: the feed holds the welcome, the summary, the query and its
\* answer, in that order
C16_Witness ==
    /\ Len(messages) = 4
    /\ messages[1].text.kind = "welcome"
    /\ messages[2].type = "alert"
    /\ messages[2].text.old = InitParams
    /\ messages[2].text.new = params
    /\ feedCostPerKg = 50
    /\ messages[3].type = "query"
    /\ messages[4].type = "info"

----------------------------------------------------------------------------
(* Properties of FarmDashboard *)

\* C17: in every state of FarmDashboard the environmental and the economic
\* score lie in [0, 100]; the environmental score is
\* max(0, 100 - emissions / 1.5 * 100), so it is 0, not negative, when the
\* emissions are above 1.5.
C17_ScoresWithinRange ==
    LET metrics == Metrics(state)
        e == metrics.base.emissions
        environmental == metrics.efficiency.environmental
        economic == metrics.efficiency.economic
    IN  /\ ~FLess(environmental, Zero) /\ ~FLess(Lit_100, environmental)
        /\ ~FLess(economic, Zero) /\ ~FLess(Lit_100, economic)
        /\ IF FLess(THRESHOLD_EMISSIONS, e)
           THEN environmental = Zero
           ELSE environmental =
                    FSub(Lit_100, FMul(FDiv(e, THRESHOLD_EMISSIONS), Lit_100))

\* the feed slider is at 20: the emissions are 1.986, above 1.5, and the
\* environmental score is 0
C17_Witness ==
    /\ state.params.concentrateFeed = FeedSliderMax
    /\ FLess(THRESHOLD_EMISSIONS, Metrics(state).base.emissions)
    /\ Metrics(state).efficiency.environmental = Zero

\* C18: over slider changes (feed 0..20, nitrogen 0..300) and chat commands
\* concentrateFeed stays in [0, 20] and nitrogenRate in [0, 300]; a command
\* never raises concentrateFeed, never makes it negative and never touches
\* nitrogenRate, a valid "reduce feed" command included; and at a feed of 0
\* (as a reduction by 100 % leaves it) a further command leaves it at 0.
C18_ParametersStayInSliderRange ==
    /\ [](/\ ~FLess(state.params.concentrateFeed, Zero)
          /\ ~FLess(FeedSliderMax, state.params.concentrateFeed)
          /\ 0 <= state.params.nitrogenRate
          /\ state.params.nitrogenRate <= 300)
    /\ [][invoked' = "handleSend" =>
            /\ ~FLess(state'.params.concentrateFeed, Zero)
            /\ ~FLess(state.params.concentrateFeed, state'.params.concentrateFeed)
            /\ state'.params.nitrogenRate = state.params.nitrogenRate
            /\ state.params.concentrateFeed = Zero =>
                   state'.params.concentrateFeed = Zero
         ]_vars

\* "reduce feed by 100%" was confirmed with a feed of 0.00, and then
\* "reduce feed by 20%" was confirmed with 0.00 again
C18_Witness ==
    /\ Len(chatMessages) = 5
    /\ chatMessages[2] = UserMessage(U_Reduce100)
    /\ chatMessages[3].content.kind = "feedReduced"
    /\ chatMessages[3].content.newFeed = 0
    /\ chatMessages[4] = UserMessage(U_Reduce20)
    /\ chatMessages[5].content.kind = "feedReduced"
    /\ chatMessages[5].content.newFeed = 0
    /\ state.params.concentrateFeed = Zero

\* C19: in FarmDashboard the operational score
\* (proteinEfficiency + nitrogenEfficiency) / 2 is below 70 at every feed in
\* [0, 20] and nitrogen rate in [0, 300] that is reached, so rule 2 (medium
\* priority, protein and nitrogen optimization) fires in every state,
\* whether or not rule 1 fires, and the suggestion list is never empty.
C19_OperationalRuleAlwaysFires ==
    LET metrics == Metrics(state)
        operational == metrics.efficiency.operational
        list == optimizationSuggestions(state, metrics)
    IN  /\ FLess(operational, Lit_70)
        /\ list # <<>>
        /\ list[Len(list)].category = "operational"
        /\ list[Len(list)].priority = "medium"
        /\ Len(list) = (IF HasReduceFeedOptimization(list) THEN 2 ELSE 1)

\* after "Reduce feed by 1%" at feed 20 the feed is 19.8: rule 1 fires
\* (emissions 1.976) and the list holds the rule 1 suggestion and then the
\* rule 2 suggestion
C19_Witness ==
    /\ state.params.concentrateFeed = SliderFeed(198)
    /\ Len(chatMessages) >= 3
    /\ LastChat.content.kind = "feedReduced"
    /\ LET list == optimizationSuggestions(state, Metrics(state))
       IN  /\ Len(list) = 2
           /\ list[1].priority = "high"
           /\ list[2].priority = "medium"
           /\ list[2].category = "operational"

\* The trendAnalysis memo of FarmDashboard: one point per period, oldest
\* first; of a point the model keeps whether it has the emissionsMA field
\* (the code tests index < 2 on a 0-based index; the sequence here is
\* 1-based).
trendAnalysis(st) ==
    LET periods == IF st.selectedTimeframe = "6m" THEN 6 ELSE 12
    IN  [index \in 1..periods |-> [emissionsMA |-> ~(index - 1 < 2)]]

\* C20: no operation of FarmDashboard or ChatWindow (a slider change, any
\* chat command) changes selectedTimeframe, which is "6m" in every state;
\* so trendAnalysis and getHistoricalData both give exactly 6 points, and in
\* trendAnalysis the moving average is on exactly the points of (0-based)
\* index 2 and above.
C20_TimeframeStaysSixMonths ==
    /\ state.selectedTimeframe = "6m"
    /\ getHistoricalData(state).periods = 6
    /\ Len(trendAnalysis(state)) = 6
    /\ \A i \in 1..Len(trendAnalysis(state)) :
           trendAnalysis(state)[i].emissionsMA <=> i >= 3

\* "reduce feed by 20%" wrote the farm state, the feed slider was then put
\* at 20, and "Show me emissions" got a chart of 6 points
C20_Witness ==
    /\ Len(chatMessages) = 5
    /\ chatMessages[2] = UserMessage(U_Reduce20)
    /\ chatMessages[3].content.kind = "feedReduced"
    /\ chatMessages[4] = UserMessage(U_Show)
    /\ chatMessages[5].content.kind = "trend"
    /\ chatMessages[5].content.data.periods = 6
    /\ state.params.concentrateFeed = FeedSliderMax
    /\ state.selectedTimeframe = "6m"

====
